---------------------------- MODULE Spec2Model ----------------------------
(***************************************************************************)
(* State-machine model of the TryLens.ai front end.                        *)
(*                                                                         *)
(* Three application variants share one pipeline                           *)
(*   click -> read product file -> read photo file -> generateContent ->   *)
(*   extract image parts -> showResult / history                           *)
(*   "tryon"     src/unnamed/part_000 lines   1-348                        *)
(*   "composite" src/unnamed/part_000 lines 349-710                        *)
(*   "overlay"   src/index.tsx (no camera, no history, output grid)        *)
(*                                                                         *)
(* One action is one task of the browser's event loop: a DOM event handler *)
(* up to its first await, or the continuation of an async function from    *)
(* the settlement of the awaited promise up to the next await (catch and   *)
(* finally blocks included).                                               *)
(*                                                                         *)
(* Strings that the code builds (data URLs, prompts) are sequences of      *)
(* tokens; a file or an image payload is a token.                          *)
(***************************************************************************)
EXTENDS Integers, Sequences, FiniteSets, TLC

\* ------------------------------------------------------------- bounds
\* Accepted generate clicks in one behaviour of Spec.
MaxRequests == 2
\* Requests that may be in flight together.
MaxInFlight == 2
\* Take-photo clicks in one behaviour.
MaxCameraOpens == 1
\* toBlob callbacks that may be pending together.
MaxPendingBlobs == 1
\* Accepted generate clicks in one behaviour of SpecHistory.
MaxHistoryRequests == 6
\* Requests that may be in flight together in SpecHistory.
MaxHistoryInFlight == 1
\* Take-photo clicks in one behaviour of SpecCamera.
MaxCameraSessions == 2
\* Accepted generate clicks in one behaviour of SpecPrompt.
MaxPromptRequests == 1
\* Content parts of a response in SpecExtract.
MaxParts == 4

\* --------------------------------------------------- program constants
\* history.length > 5 => pop (part_000:308, part_000:670)
HistoryCapacity == 5
\* showLoadingPlaceholders: for (i = 0; i < 3; i++) (part_000:193)
PlaceholderCount == 3

Null == "null"
Variants == {"tryon", "composite", "overlay"}
HasHistory(v) == v \in {"tryon", "composite"}

\* ------------------------------------------------------------- values
\* Files the user can pick, and the file cameraConfirm builds (part_000:153).
CaptureFile == "capture.jpg"
FileType(f) == IF f = "product.png" THEN "image/png" ELSE "image/jpeg"
\* The base64 payload FileReader produces for a file (one token per file).
FileBase64(f) ==
  CASE f = "product.png" -> "b64-product"
    [] f = "scene1.jpg"  -> "b64-scene1"
    [] f = "scene2.jpg"  -> "b64-scene2"
    [] OTHER             -> "b64-capture"

\* FileReader.readAsDataURL(file): "data:<type>;base64,<payload>", a string
\* of five tokens.
ReadAsDataURL(f) == <<"data:", FileType(f), ";base64", ",", FileBase64(f)>>

\* String.prototype.split(',') on a token string: the pieces between commas.
RECURSIVE SplitComma(_)
SplitComma(s) ==
  IF \A i \in 1..Len(s) : s[i] # ","
    THEN <<s>>
    ELSE LET k == CHOOSE i \in 1..Len(s) :
                     s[i] = "," /\ \A j \in 1..(i-1) : s[j] # ","
         IN  <<SubSeq(s, 1, k-1)>> \o SplitComma(SubSeq(s, k+1, Len(s)))

\* fileToGenerativePart's resolved value (part_000:171-175): the url field
\* exists in the try-on and composite variants only (index.tsx:88-91).
FileToGenerativePart(v, f) ==
  LET result == ReadAsDataURL(f)
      base64Data == SplitComma(result)[2]
  IN  IF HasHistory(v)
        THEN [mimeType |-> FileType(f), data |-> base64Data, url |-> result]
        ELSE [mimeType |-> FileType(f), data |-> base64Data]


\* --------------------------------------------------------------- prompts
\* The template literal of each variant, cut at its ${...} placeholders.
\* Mutant: the percent sign after the scale is lost.
Mutant_PromptTryOn_NoPercent(scale) ==
  << "Task: Virtual Try-On. Scale the new clothing to approximately ", scale,
     " of the person's torso height." >>

\* Try-on variant (part_000:276-288): ${scaleSlider.value}.
PromptTryOn(scale) ==
  << "Task: Virtual Try-On.\n\nBase image: The second image provided (the user's photo).\nProduct image: The first image provided (the clothing item).\n\nInstructions:\n1. Identify the main person in the base image.\n2. Replace the clothing worn by the person (e.g., dress, shirt, top) with the clothing from the product image.\n3. The new clothing should be scaled to approximately ",
     scale, "%",
     " of the person's torso height to ensure a good fit.\n4. Realistically adapt the product to the person's body shape, posture, and pose.\n5. Match the lighting, shadows, and color temperature of the base image to create a seamless, photorealistic result.\n6. Do not modify the person's face, body, or the background. Only change the clothing.\n7. Generate 3 variants with slight variations in fit and drape." >>

\* Composite variant (part_000:642-650): ${placementSelect.value},
\* ${scaleSlider.value}, ${shadowSlider.value} on a 0.0-1.0 scale.
PromptComposite(placement, scale, shadow) ==
  << "Base image: The second image provided (the photo). Overlay image: The first image provided (the product).\n\nTask: Insert the product from the overlay image into the base image at the ",
     placement,
     " area.\nScale the product to about ",
     scale, "%",
     " of the photo's width.\nMatch the scene's lighting, color temperature, and perspective.\nAdd realistic shadows with an intensity of about ",
     shadow,
     " (where 0.0 is none and 1.0 is dark).\nDo not modify the person's face or the background.\nOutput a natural-looking, high-resolution composite suitable for a premium ecommerce preview.\nGenerate 3 variants with slight rotation differences." >>

\* Overlay variant (index.tsx:130-138): ${placement}, ${scale}, ${shadow}%.
PromptOverlay(placement, scale, shadow) ==
  << "Base image: The second image provided (the photo). Overlay image: The first image provided (the product).\n\nTask: Insert the product from the overlay image into the base image at the ",
     placement,
     " area.\nScale the product to about ",
     scale, "%",
     " of the photo's width.\nMatch the scene's lighting, color temperature, and perspective.\nAdd realistic shadows with an intensity of about ",
     shadow, "%",
     ".\nDo not modify the person's face or the background.\nOutput a natural-looking, high-resolution composite suitable for a premium ecommerce preview.\nGenerate 3 variants with slight rotation differences." >>

\* Mutant: the shadow placeholder is left as written (a quoted string where
\* the template literal stands).
Mutant_BuildPrompt_ShadowUnresolved(v, placement, scale, shadow) ==
  CASE v = "tryon"     -> PromptTryOn(scale)
    [] v = "composite" -> PromptComposite(placement, scale, "${shadowSlider.value}")
    [] OTHER           -> PromptOverlay(placement, scale, "${shadow}")

\* The prompt of the running variant (part_000:276-288, part_000:642-650,
\* index.tsx:126-138).
BuildPrompt(v, placement, scale, shadow) ==
  CASE v = "tryon"     -> PromptTryOn(scale)
    [] v = "composite" -> PromptComposite(placement, scale, shadow)
    [] OTHER           -> PromptOverlay(placement, scale, shadow)

\* ------------------------------------------------- request and response
\* Mutant: the scene image is sent before the product image.
Mutant_GenerateContentRequest_SceneFirst(productPart, photoPart, prompt) ==
  [ model    |-> "gemini-2.5-flash-image-preview",
    contents |-> [parts |-> << [inlineData |-> photoPart],
                               [inlineData |-> productPart],
                               [text |-> prompt] >>],
    config   |-> [responseModalities |-> <<"IMAGE", "TEXT">>] ]

\* The argument of ai.models.generateContent (part_000:290-294,
\* part_000:652-656, index.tsx:140-152).
GenerateContentRequest(productPart, photoPart, prompt) ==
  [ model    |-> "gemini-2.5-flash-image-preview",
    contents |-> [parts |-> << [inlineData |-> productPart],
                               [inlineData |-> photoPart],
                               [text |-> prompt] >>],
    config   |-> [responseModalities |-> <<"IMAGE", "TEXT">>] ]

\* A content part carries inlineData or text; part.inlineData is truthy iff
\* the field is there.
HasInlineData(part) == "inlineData" \in DOMAIN part

\* response.candidates?.[0]?.content?.parts : the parts, or undefined
\* (modelled as no parts at all: the caller only tests imageParts && length).
FirstCandidateParts(response) ==
  IF "candidates" \notin DOMAIN response THEN <<>>
  ELSE IF Len(response.candidates) = 0 THEN <<>>
  ELSE IF "content" \notin DOMAIN response.candidates[1] THEN <<>>
  ELSE IF "parts" \notin DOMAIN response.candidates[1].content THEN <<>>
  ELSE response.candidates[1].content.parts

\* Mutant: the extractor keeps at most the three images the prompt asks for.
Mutant_ImageParts_AtMostThree(response) ==
  LET all == SelectSeq(FirstCandidateParts(response), HasInlineData)
  IN  IF Len(all) > 3 THEN SubSeq(all, 1, 3) ELSE all

\* .filter(part => part.inlineData) (part_000:297, index.tsx:154)
ImageParts(response) == SelectSeq(FirstCandidateParts(response), HasInlineData)

\* `data:${mimeType};base64,${data}` (part_000:300, index.tsx:162)
ImageSource(part) ==
  <<"data:", part.inlineData.mimeType, ";base64", ",", part.inlineData.data>>

\* imageParts.map(...) (part_000:300); index.tsx:157-166 appends the same
\* sources, in the same order, to the output grid.
GeneratedSources(response) ==
  [i \in 1..Len(ImageParts(response)) |-> ImageSource(ImageParts(response)[i])]

\* if (imageParts && imageParts.length > 0) (part_000:299, index.tsx:156);
\* otherwise the NoImageReturned branch runs.
ImagePartsFound(response) == Len(ImageParts(response)) > 0

\* Mutant: a result is built from whatever the response holds.
Mutant_RecordsResult_Always(response) == TRUE

\* The two nested tests under which a result is shown and recorded
\* (part_000:299 and part_000:302).
RecordsResult(response) ==
  ImagePartsFound(response) /\ Len(GeneratedSources(response)) > 0

\* Mutant: the explanation of the service is dropped.
Mutant_NoImageMessage_FallbackOnly(response) ==
  << "Could not generate an image. Model response: ", "No text response." >>

\* response.text || "No text response." (part_000:312, index.tsx:169-170)
NoImageMessage(response) ==
  << "Could not generate an image. Model response: ",
     IF "text" \in DOMAIN response /\ response.text # ""
       THEN response.text ELSE "No text response." >>

MissingInputMessage(v) ==
  IF HasHistory(v)
    THEN <<"Please provide both product and scene photos.">>
    ELSE <<"Please upload both a product and a photo, and ensure the API key is set.">>

ServiceFailureMessage(v) ==
  IF HasHistory(v)
    THEN <<"An error occurred. Please check the console for details.">>
    ELSE <<"An error occurred while generating the image. Please check the console for details.">>

\* ---------------------------------------------------------------- history
\* Mutant: push instead of unshift, so that pop evicts the newest entry.
Mutant_RecordHistory_Push(h, newResult) ==
  LET pushed == Append(h, newResult)
  IN  IF Len(pushed) > HistoryCapacity
        THEN SubSeq(pushed, 1, Len(pushed) - 1)
        ELSE pushed

\* history.unshift(newResult); if (history.length > 5) history.pop();
\* (part_000:307-308, part_000:669-670)
RecordHistory(h, newResult) ==
  LET unshifted == <<newResult>> \o h
  IN  IF Len(unshifted) > HistoryCapacity
        THEN SubSeq(unshifted, 1, Len(unshifted) - 1)
        ELSE unshifted

\* checkFormValidity (part_000:78-82, index.tsx:47-51): the value it gives
\* generateButton.disabled.
CheckFormValidity(product, photo) == ~(product # Null /\ photo # Null)

\* Mutant: the guard forgets the scene image.
Mutant_MissingInput_IgnoresPhoto(product, photo, key) == product = Null \/ ~key

\* The input guard of the generate click handler (part_000:263,
\* part_000:629, index.tsx:111).
MissingInput(product, photo, key) == product = Null \/ photo = Null \/ ~key

\* setLoadingState(isLoading) (part_000:181-186, index.tsx:98-108): what it
\* leaves in the button; with isLoading false it ends in checkFormValidity.
SetLoadingState(v, isLoading, product, photo) ==
  [ disabled   |-> IF isLoading THEN TRUE ELSE CheckFormValidity(product, photo),
    buttonText |-> IF isLoading THEN "Generating..."
                   ELSE IF HasHistory(v) THEN "Generate" ELSE "Generate Try-On",
    spinner    |-> IF isLoading THEN "block" ELSE "none" ]

\* showLoadingPlaceholders (part_000:188-198): the variants container holds
\* three placeholder elements.
Placeholders == [i \in 1..PlaceholderCount |-> <<"variant-placeholder">>]

\* ---------------------------------------------------------------- state
VARIABLES
  variant,                 \* which of the three applications is running
  apiKey,                  \* process.env.API_KEY is set
  productFiles,            \* productUpload.files[0], or Null
  photoFiles,              \* photoUpload.files[0], or Null
  scaleSlider,             \* scaleSlider.value
  shadowSlider,            \* shadowSlider.value
  placementSelect,         \* placementSelect.value
  generateDisabled,        \* generateButton.disabled
  buttonText,              \* buttonText.textContent
  spinnerDisplay,          \* spinner.style.display
  outputContainerDisplay,  \* outputContainer.style.display
  comparisonLoading,       \* comparisonContainer has class 'loading'
  variantsContainer,       \* children of variantsContainer (sources)
  beforeImage,             \* beforeImage.src
  afterImage,              \* afterImage.src
  outputGrid,              \* img sources in outputGrid (overlay variant)
  originalPhotoSrc,        \* part_000:71
  currentGeneratedSources, \* part_000:72
  history,                 \* part_000:73
  alertOpen,               \* message of the open alert() dialog, or <<>>
  reqs,                    \* generate handlers suspended at an await
  accepted,                \* clicks that passed the input guard
  networkCalls,            \* calls of ai.models.generateContent
  recorded,                \* every result recorded in history, in order
  activeCameraTarget,      \* part_000:68: Null, or the input the camera fills
  stream,                  \* part_000:69: 0 (null) or the stream acquired last
  liveStreams,             \* acquired streams whose tracks still run
  cameraModalDisplay,      \* cameraModal.style.display
  cameraConfirmDisabled,   \* cameraConfirm.disabled
  cameraConfirmText,       \* cameraConfirmText.textContent
  pendingOpens,            \* getUserMedia promises not settled yet
  pendingBlobs,            \* toBlob callbacks not run yet, oldest first:
                           \* the input each confirm click was made for
  cameraOpens              \* take-photo clicks so far

pipeVars == << variant, apiKey, productFiles, photoFiles, scaleSlider,
               shadowSlider, placementSelect, generateDisabled, buttonText,
               spinnerDisplay, outputContainerDisplay, comparisonLoading,
               variantsContainer, beforeImage, afterImage, outputGrid,
               originalPhotoSrc, currentGeneratedSources, history, alertOpen,
               reqs, accepted, networkCalls, recorded >>

\* The controls of the form and what the build fixes.
ctlVars == << variant, apiKey, scaleSlider, shadowSlider, placementSelect >>

camVars == << activeCameraTarget, stream, liveStreams, cameraModalDisplay,
              cameraConfirmDisabled, cameraConfirmText, pendingOpens,
              pendingBlobs, cameraOpens >>

vars == << pipeVars, camVars >>

\* The controls as the page loads.  The try-on variant has a scale slider
\* only (part_000:37-38); the composite variant (part_000:385-389) and the
\* overlay variant (index.tsx:33-37) add a shadow slider and a placement
\* select.
InitialShadow(v) ==
  CASE v = "tryon" -> Null [] v = "composite" -> "0.6" [] OTHER -> "60"
InitialPlacement(v) == IF v = "tryon" THEN Null ELSE "center"

NoAlert == <<>>
NoPart == [mimeType |-> "", data |-> ""]
NoRequest == [model |-> ""]

\* A request suspended at its first await (part_000:272): the file being
\* read is productUpload.files[0] as it was at the click.  `before` keeps
\* what history, originalPhotoSrc and currentGeneratedSources were then.
\* Until the second read starts, photoFile is the scene file that passed
\* the input guard (part_000:263); part_000:273 replaces it by the file
\* found in the input after the await.
NewRequest(product) ==
  [ pc          |-> "readProduct",
    productFile |-> product,
    photoFile   |-> photoFiles,
    productPart |-> NoPart,
    photoPart   |-> NoPart,
    sent        |-> NoRequest,
    calls       |-> 0,
    before      |-> <<history, originalPhotoSrc, currentGeneratedSources>> ]

RemoveAt(s, i) == SubSeq(s, 1, i-1) \o SubSeq(s, i+1, Len(s))

Init ==
  /\ variant \in Variants
  /\ apiKey \in BOOLEAN
  /\ productFiles = Null
  /\ photoFiles = Null
  /\ scaleSlider = "40"
  /\ shadowSlider = InitialShadow(variant)
  /\ placementSelect = InitialPlacement(variant)
  /\ generateDisabled = CheckFormValidity(Null, Null)
  /\ buttonText = IF HasHistory(variant) THEN "Generate" ELSE "Generate Try-On"
  /\ spinnerDisplay = "none"
  /\ outputContainerDisplay = "none"
  /\ comparisonLoading = FALSE
  /\ variantsContainer = <<>>
  /\ beforeImage = <<>>
  /\ afterImage = <<>>
  /\ outputGrid = <<>>
  /\ originalPhotoSrc = <<>>
  /\ currentGeneratedSources = <<>>
  /\ history = <<>>
  /\ alertOpen = NoAlert
  /\ reqs = <<>>
  /\ accepted = 0
  /\ networkCalls = 0
  /\ recorded = <<>>
  /\ activeCameraTarget = Null
  /\ stream = 0
  /\ liveStreams = {}
  /\ cameraModalDisplay = "none"
  /\ cameraConfirmDisabled = FALSE
  /\ cameraConfirmText = "Use Photo"
  /\ pendingOpens = 0
  /\ pendingBlobs = <<>>
  /\ cameraOpens = 0

\* ------------------------------------------------------------- actions
\* alert() blocks the event loop until the user dismisses the dialog: while
\* one is open no other handler runs.
DismissAlert ==
  /\ alertOpen # NoAlert
  /\ alertOpen' = NoAlert
  /\ UNCHANGED << ctlVars, camVars, productFiles, photoFiles, generateDisabled, buttonText,
                  spinnerDisplay, outputContainerDisplay, comparisonLoading,
                  variantsContainer, beforeImage, afterImage, outputGrid,
                  originalPhotoSrc, currentGeneratedSources, history,
                  reqs, accepted, networkCalls, recorded >>

\* 'change' on productUpload (part_000:94 -> handleFileChange ->
\* checkFormValidity): the user picked file f, or emptied the selection.
ProductChange(f) ==
  /\ alertOpen = NoAlert
  /\ ~(f = Null /\ productFiles = Null)
  /\ productFiles' = f
  /\ generateDisabled' = CheckFormValidity(f, photoFiles)
  /\ UNCHANGED << ctlVars, camVars, photoFiles, buttonText,
                  spinnerDisplay, outputContainerDisplay, comparisonLoading,
                  variantsContainer, beforeImage, afterImage, outputGrid,
                  originalPhotoSrc, currentGeneratedSources, history,
                  alertOpen, reqs, accepted, networkCalls, recorded >>

\* 'change' on photoUpload (part_000:95).
PhotoChange(f) ==
  /\ alertOpen = NoAlert
  /\ ~(f = Null /\ photoFiles = Null)
  /\ photoFiles' = f
  /\ generateDisabled' = CheckFormValidity(productFiles, f)
  /\ UNCHANGED << ctlVars, camVars, productFiles, buttonText,
                  spinnerDisplay, outputContainerDisplay, comparisonLoading,
                  variantsContainer, beforeImage, afterImage, outputGrid,
                  originalPhotoSrc, currentGeneratedSources, history,
                  alertOpen, reqs, accepted, networkCalls, recorded >>

\* The generate click handler up to its first await (part_000:262-272,
\* part_000:628-638, index.tsx:110-123).
GenerateHandler(maxRequests, maxInFlight) ==
  /\ alertOpen = NoAlert
  /\ IF MissingInput(productFiles, photoFiles, apiKey)
       THEN /\ alertOpen' = MissingInputMessage(variant)
            /\ UNCHANGED << generateDisabled, buttonText, spinnerDisplay,
                            outputContainerDisplay, comparisonLoading,
                            variantsContainer, outputGrid, reqs, accepted >>
       ELSE /\ accepted < maxRequests
            /\ Len(reqs) < maxInFlight
            /\ LET l == SetLoadingState(variant, TRUE, productFiles, photoFiles)
               IN  /\ generateDisabled' = l.disabled
                   /\ buttonText' = l.buttonText
                   /\ spinnerDisplay' = l.spinner
            /\ IF HasHistory(variant)
                 THEN /\ outputContainerDisplay' = "block"
                      /\ comparisonLoading' = TRUE
                      /\ variantsContainer' = Placeholders
                      /\ UNCHANGED outputGrid
                 ELSE /\ outputGrid' = <<>>
                      /\ outputContainerDisplay' = "none"
                      /\ UNCHANGED << comparisonLoading, variantsContainer >>
            /\ reqs' = Append(reqs, NewRequest(productFiles))
            /\ accepted' = accepted + 1
            /\ UNCHANGED alertOpen
  /\ UNCHANGED << ctlVars, camVars, productFiles, photoFiles, beforeImage, afterImage,
                  originalPhotoSrc, currentGeneratedSources, history,
                  networkCalls, recorded >>

\* A click of the user on the generate button: a disabled button
\* dispatches no click event.
GenerateClick(maxRequests, maxInFlight) ==
  /\ ~generateDisabled
  /\ GenerateHandler(maxRequests, maxInFlight)

\* finally { setLoadingState(false); hideLoadingPlaceholders(); }
\* (part_000:319-322, part_000:681-684, index.tsx:176-178): the handler of
\* request i ends.
FinallyBlock(i) ==
  /\ LET l == SetLoadingState(variant, FALSE, productFiles, photoFiles)
     IN  /\ generateDisabled' = l.disabled
         /\ buttonText' = l.buttonText
         /\ spinnerDisplay' = l.spinner
  /\ comparisonLoading' = IF HasHistory(variant) THEN FALSE ELSE comparisonLoading
  /\ reqs' = RemoveAt(reqs, i)

\* Mutant: a rejected service call is retried once before giving up.
Mutant_CatchAndFinally_RetriesOnce(i) ==
  IF reqs[i].pc = "awaitResponse" /\ reqs[i].calls < 2
    THEN /\ reqs' = [reqs EXCEPT ![i].calls = reqs[i].calls + 1]
         /\ networkCalls' = networkCalls + 1
         /\ UNCHANGED << ctlVars, camVars, productFiles, photoFiles,
                generateDisabled, buttonText, spinnerDisplay,
                outputContainerDisplay, comparisonLoading, variantsContainer,
                beforeImage, afterImage, outputGrid, originalPhotoSrc,
                currentGeneratedSources, history, alertOpen, accepted, recorded >>
    ELSE /\ alertOpen' = ServiceFailureMessage(variant)
         /\ outputContainerDisplay' =
              IF HasHistory(variant) THEN "none" ELSE outputContainerDisplay
         /\ FinallyBlock(i)
         /\ UNCHANGED << ctlVars, camVars, productFiles, photoFiles,
                variantsContainer, beforeImage, afterImage, outputGrid,
                originalPhotoSrc, currentGeneratedSources, history, accepted,
                networkCalls, recorded >>

\* catch (error) { console.error; alert; outputContainer hidden }
\* (part_000:315-318, part_000:677-680, index.tsx:173-175), followed by the
\* finally block.  Nothing is retried.
CatchAndFinally(i) ==
  /\ alertOpen' = ServiceFailureMessage(variant)
  /\ outputContainerDisplay' =
       IF HasHistory(variant) THEN "none" ELSE outputContainerDisplay
  /\ FinallyBlock(i)
  /\ UNCHANGED << ctlVars, camVars, productFiles, photoFiles, variantsContainer,
                  beforeImage, afterImage, outputGrid, originalPhotoSrc,
                  currentGeneratedSources, history, accepted, networkCalls,
                  recorded >>

\* await fileToGenerativePart(productUpload.files[0]) settles (part_000:272).
\* Resolved: the handler goes on to read photoUpload.files[0] as it is now
\* (part_000:273); with no file there readAsDataURL(undefined) throws in the
\* promise executor and the await rejects at once.
ProductReadSettles(i, ok) ==
  /\ alertOpen = NoAlert
  /\ i \in 1..Len(reqs)
  /\ reqs[i].pc = "readProduct"
  /\ IF ok /\ photoFiles # Null
       THEN /\ reqs' = [reqs EXCEPT
                 ![i].pc = "readPhoto",
                 ![i].productPart = FileToGenerativePart(variant, reqs[i].productFile),
                 ![i].photoFile = photoFiles]
            /\ UNCHANGED << ctlVars, camVars, productFiles, photoFiles,
                  generateDisabled,
                  buttonText, spinnerDisplay, outputContainerDisplay,
                  comparisonLoading, variantsContainer, beforeImage, afterImage,
                  outputGrid, originalPhotoSrc, currentGeneratedSources,
                  history, alertOpen, accepted, networkCalls, recorded >>
       ELSE CatchAndFinally(i)

\* The call of the generation service made by request r with its two parts
\* (part_000:274-294): originalPhotoSrc is assigned, the prompt is built
\* from the controls as they are now, generateContent is called once.
Dispatch(i, photoPart) ==
  /\ originalPhotoSrc' =
       IF HasHistory(variant) THEN photoPart.url ELSE originalPhotoSrc
  /\ reqs' = [reqs EXCEPT
       ![i].pc = "awaitResponse",
       ![i].photoPart = photoPart,
       ![i].sent = GenerateContentRequest(reqs[i].productPart, photoPart,
                     BuildPrompt(variant, placementSelect, scaleSlider, shadowSlider)),
       ![i].calls = reqs[i].calls + 1]
  /\ networkCalls' = networkCalls + 1
  /\ UNCHANGED << ctlVars, camVars, productFiles, photoFiles,
        generateDisabled,
        buttonText, spinnerDisplay, outputContainerDisplay,
        comparisonLoading, variantsContainer, beforeImage, afterImage,
        outputGrid, currentGeneratedSources, history, alertOpen, accepted,
        recorded >>

\* await fileToGenerativePart(photoUpload.files[0]) settles (part_000:273).
PhotoReadSettles(i, ok) ==
  /\ alertOpen = NoAlert
  /\ i \in 1..Len(reqs)
  /\ reqs[i].pc = "readPhoto"
  /\ IF ok
       THEN Dispatch(i, FileToGenerativePart(variant, reqs[i].photoFile))
       ELSE CatchAndFinally(i)

\* Mutant: the before image is given the first variant, not the original.
Mutant_ShowResult_BeforeIsVariant(result) ==
  [ beforeImage             |-> IF Len(result.variants) > 0
                                  THEN result.variants[1] ELSE <<>>,
    currentGeneratedSources |-> result.variants,
    afterImage              |-> IF Len(result.variants) > 0
                                  THEN result.variants[1] ELSE <<>>,
    variantsContainer       |-> result.variants,
    outputContainerDisplay  |-> "block" ]

\* showResult(result) (part_000:204-216) with updateMainImage and
\* createThumbnails: what it leaves in the page.
ShowResult(result) ==
  [ beforeImage             |-> result.original,
    currentGeneratedSources |-> result.variants,
    afterImage              |-> IF Len(result.variants) > 0
                                  THEN result.variants[1] ELSE <<>>,
    variantsContainer       |-> result.variants,
    outputContainerDisplay  |-> "block" ]

\* await ai.models.generateContent(...) resolves with `response`
\* (part_000:296-314 then the finally block; index.tsx:154-171).
ResponseArrives(i, response) ==
  /\ alertOpen = NoAlert
  /\ i \in 1..Len(reqs)
  /\ reqs[i].pc = "awaitResponse"
  /\ LET generatedSources == GeneratedSources(response)
         newResult == [original |-> originalPhotoSrc, variants |-> generatedSources]
         shown == ShowResult(newResult)
     IN  IF (IF HasHistory(variant) THEN RecordsResult(response)
                                     ELSE ImagePartsFound(response))
           THEN /\ IF HasHistory(variant)
                     THEN /\ beforeImage' = shown.beforeImage
                          /\ currentGeneratedSources' = shown.currentGeneratedSources
                          /\ afterImage' = shown.afterImage
                          /\ variantsContainer' = shown.variantsContainer
                          /\ outputContainerDisplay' = shown.outputContainerDisplay
                          /\ history' = RecordHistory(history, newResult)
                          /\ recorded' = Append(recorded, newResult)
                          /\ UNCHANGED outputGrid
                     ELSE /\ outputGrid' = outputGrid \o generatedSources
                          /\ outputContainerDisplay' = "block"
                          /\ UNCHANGED << beforeImage, currentGeneratedSources,
                                          afterImage, variantsContainer, history,
                                          recorded >>
                /\ UNCHANGED alertOpen
           ELSE /\ IF ImagePartsFound(response)
                     THEN UNCHANGED << alertOpen, outputContainerDisplay >>
                     ELSE /\ alertOpen' = NoImageMessage(response)
                          /\ outputContainerDisplay' =
                               IF HasHistory(variant) THEN "none"
                               ELSE outputContainerDisplay
                /\ UNCHANGED << beforeImage, currentGeneratedSources, afterImage,
                                variantsContainer, history, recorded, outputGrid >>
  /\ FinallyBlock(i)
  /\ UNCHANGED << ctlVars, camVars, productFiles, photoFiles, originalPhotoSrc, accepted,
                  networkCalls >>

\* await ai.models.generateContent(...) rejects: a network or service error.
ResponseFails(i) ==
  /\ alertOpen = NoAlert
  /\ i \in 1..Len(reqs)
  /\ reqs[i].pc = "awaitResponse"
  /\ CatchAndFinally(i)

\* Mutant: the selected entry is moved to the front of the history.
Mutant_SelectHistory_MovesToFront(k) ==
  /\ alertOpen = NoAlert
  /\ HasHistory(variant)
  /\ k \in 1..Len(history)
  /\ LET shown == ShowResult(history[k])
     IN  /\ beforeImage' = shown.beforeImage
         /\ currentGeneratedSources' = shown.currentGeneratedSources
         /\ afterImage' = shown.afterImage
         /\ variantsContainer' = shown.variantsContainer
         /\ outputContainerDisplay' = shown.outputContainerDisplay
  /\ history' = <<history[k]>> \o RemoveAt(history, k)
  /\ UNCHANGED << ctlVars, camVars, productFiles, photoFiles, generateDisabled, buttonText,
                  spinnerDisplay, comparisonLoading, outputGrid,
                  originalPhotoSrc,
                  alertOpen, reqs, accepted, networkCalls, recorded >>

\* Click on history item k (part_000:250): showResult(item), the item being
\* history[k] since renderHistory runs after every change of history.
SelectHistory(k) ==
  /\ alertOpen = NoAlert
  /\ HasHistory(variant)
  /\ k \in 1..Len(history)
  /\ LET shown == ShowResult(history[k])
     IN  /\ beforeImage' = shown.beforeImage
         /\ currentGeneratedSources' = shown.currentGeneratedSources
         /\ afterImage' = shown.afterImage
         /\ variantsContainer' = shown.variantsContainer
         /\ outputContainerDisplay' = shown.outputContainerDisplay
  /\ UNCHANGED << ctlVars, camVars, productFiles, photoFiles, generateDisabled, buttonText,
                  spinnerDisplay, comparisonLoading, outputGrid,
                  originalPhotoSrc, history,
                  alertOpen, reqs, accepted, networkCalls, recorded >>

\* Click on thumbnail k of the variants container (part_000:233):
\* updateMainImage(src, index).
SelectVariant(k) ==
  /\ alertOpen = NoAlert
  /\ HasHistory(variant)
  /\ outputContainerDisplay = "block"
  /\ k \in 1..Len(variantsContainer)
  /\ variantsContainer[k] # <<"variant-placeholder">>
  /\ afterImage' = variantsContainer[k]
  /\ UNCHANGED << ctlVars, camVars, productFiles, photoFiles, generateDisabled,
                  buttonText, spinnerDisplay, outputContainerDisplay,
                  comparisonLoading, variantsContainer, beforeImage, outputGrid,
                  originalPhotoSrc, currentGeneratedSources, history,
                  alertOpen, reqs, accepted, networkCalls, recorded >>

pageVars == << productFiles, photoFiles, generateDisabled, buttonText,
               spinnerDisplay, outputContainerDisplay, comparisonLoading,
               variantsContainer, beforeImage, afterImage, outputGrid,
               originalPhotoSrc, currentGeneratedSources, history, reqs,
               accepted, networkCalls, recorded >>

\* ---------------------------------------------------------------- camera
CameraTargets == {"product-upload", "photo-upload"}

\* Click on a take-photo button (part_000:132-137): openCamera(targetInput)
\* up to its await (part_000:111-114).
TakePhotoClick(target, maxOpens) ==
  /\ alertOpen = NoAlert
  /\ HasHistory(variant)
  /\ cameraOpens < maxOpens
  /\ activeCameraTarget' = target
  /\ pendingOpens' = pendingOpens + 1
  /\ cameraOpens' = cameraOpens + 1
  /\ UNCHANGED << ctlVars, pageVars, alertOpen, stream, liveStreams,
                  cameraModalDisplay, cameraConfirmDisabled, cameraConfirmText,
                  pendingBlobs >>

\* getUserMedia settles (part_000:114-121).  A granted stream gets the next
\* identity; its tracks run until stopped.
GetUserMediaSettles(granted) ==
  /\ alertOpen = NoAlert
  /\ pendingOpens > 0
  /\ pendingOpens' = pendingOpens - 1
  /\ IF granted
       THEN /\ stream' = cameraOpens - pendingOpens + 1
            /\ liveStreams' = liveStreams \cup {cameraOpens - pendingOpens + 1}
            /\ cameraModalDisplay' = "flex"
            /\ cameraConfirmDisabled' = TRUE
            /\ UNCHANGED alertOpen
       ELSE /\ alertOpen' = <<"Could not access the camera. Please ensure you have given permission.">>
            /\ UNCHANGED << stream, liveStreams, cameraModalDisplay,
                            cameraConfirmDisabled >>
  /\ UNCHANGED << ctlVars, pageVars, activeCameraTarget, cameraConfirmText,
                  pendingBlobs, cameraOpens >>

\* Click on the capture button of the open modal (part_000:140-146).
CameraCaptureClick ==
  /\ alertOpen = NoAlert
  /\ cameraModalDisplay = "flex"
  /\ cameraConfirmDisabled' = FALSE
  /\ UNCHANGED << ctlVars, pageVars, alertOpen, activeCameraTarget, stream,
                  liveStreams, cameraModalDisplay, cameraConfirmText,
                  pendingOpens, pendingBlobs, cameraOpens >>

\* closeCamera (part_000:124-130): what it leaves.
CloseCamera ==
  /\ liveStreams' = IF stream # 0 THEN liveStreams \ {stream} ELSE liveStreams
  /\ cameraModalDisplay' = "none"
  /\ activeCameraTarget' = Null

\* Click on the confirm button (part_000:148-151): the handler up to the
\* asynchronous toBlob.
CameraConfirmClick ==
  /\ alertOpen = NoAlert
  /\ cameraModalDisplay = "flex"
  /\ ~cameraConfirmDisabled
  /\ IF activeCameraTarget = Null
       THEN UNCHANGED << cameraConfirmDisabled, cameraConfirmText, pendingBlobs >>
       ELSE /\ Len(pendingBlobs) < MaxPendingBlobs
            /\ cameraConfirmDisabled' = TRUE
            /\ cameraConfirmText' = "Saving..."
            /\ pendingBlobs' = Append(pendingBlobs, activeCameraTarget)
  /\ UNCHANGED << ctlVars, pageVars, alertOpen, activeCameraTarget, stream,
                  liveStreams, cameraModalDisplay, pendingOpens, cameraOpens >>

\* The toBlob callback (part_000:151-161).  With a blob the file lands in
\* activeCameraTarget and a 'change' event runs handleFileChange; when
\* activeCameraTarget is null by then, `activeCameraTarget!.files = ...`
\* throws and the rest of the callback does not run.
ToBlobCallback(hasBlob) ==
  /\ alertOpen = NoAlert
  /\ pendingBlobs # <<>>
  /\ pendingBlobs' = Tail(pendingBlobs)
  /\ IF hasBlob /\ activeCameraTarget = Null
       THEN UNCHANGED << pageVars, activeCameraTarget, liveStreams,
                         cameraModalDisplay, cameraConfirmDisabled,
                         cameraConfirmText >>
       ELSE /\ IF hasBlob
                 THEN LET product == IF activeCameraTarget = "product-upload"
                                       THEN CaptureFile ELSE productFiles
                          photo   == IF activeCameraTarget = "photo-upload"
                                       THEN CaptureFile ELSE photoFiles
                      IN  /\ productFiles' = product
                          /\ photoFiles' = photo
                          /\ generateDisabled' = CheckFormValidity(product, photo)
                 ELSE UNCHANGED << productFiles, photoFiles, generateDisabled >>
            /\ cameraConfirmDisabled' = FALSE
            /\ cameraConfirmText' = "Use Photo"
            /\ CloseCamera
            /\ UNCHANGED << buttonText, spinnerDisplay, outputContainerDisplay,
                            comparisonLoading, variantsContainer, beforeImage,
                            afterImage, outputGrid, originalPhotoSrc,
                            currentGeneratedSources, history, reqs, accepted,
                            networkCalls, recorded >>
  /\ UNCHANGED << ctlVars, alertOpen, stream, pendingOpens, cameraOpens >>

\* Click on the cancel button of the open modal (part_000:164).
CameraCancelClick ==
  /\ alertOpen = NoAlert
  /\ cameraModalDisplay = "flex"
  /\ CloseCamera
  /\ UNCHANGED << ctlVars, pageVars, alertOpen, stream, cameraConfirmDisabled,
                  cameraConfirmText, pendingOpens, pendingBlobs, cameraOpens >>

\* -------------------------------------------------------------- controls
\* String(n) of a number given in tenths: String(40) = "40", String(0.6) =
\* "0.6" (part_000:460-461); the value of a range input is the same
\* decimal string.
StringOfTenths(t) ==
  IF t % 10 = 0 THEN ToString(t \div 10)
  ELSE ToString(t \div 10) \o "." \o ToString(t % 10)

\* The user moves the scale slider to n percent (part_000:37, 101;
\* index.tsx:33, 66-71): the handler only repaints the label.
ScaleInput(n) ==
  /\ alertOpen = NoAlert
  /\ scaleSlider' = StringOfTenths(10 * n)
  /\ UNCHANGED << variant, apiKey, shadowSlider, placementSelect, pageVars,
                  alertOpen, camVars >>

\* The user moves the shadow slider (part_000:387, 457 on a 0.0-1.0 scale,
\* given in tenths; index.tsx:35, 73-78 in percent).
ShadowInput(t) ==
  /\ alertOpen = NoAlert
  /\ variant # "tryon"
  /\ shadowSlider' = IF variant = "composite" THEN StringOfTenths(t)
                     ELSE StringOfTenths(10 * t)
  /\ UNCHANGED << variant, apiKey, scaleSlider, placementSelect, pageVars,
                  alertOpen, camVars >>

\* The user picks a placement (part_000:389, index.tsx:37).
PlacementChange(p) ==
  /\ alertOpen = NoAlert
  /\ variant # "tryon"
  /\ placementSelect' = p
  /\ UNCHANGED << variant, apiKey, scaleSlider, shadowSlider, pageVars,
                  alertOpen, camVars >>

\* applyPreset(scale, shadow) (part_000:459-464), shadow in tenths: the
\* lifestyle preset is (40, 0.6), the subtle one (15, 0.3) (part_000:466-467).
ApplyPreset(scale, shadow) ==
  /\ alertOpen = NoAlert
  /\ variant = "composite"
  /\ scaleSlider' = StringOfTenths(10 * scale)
  /\ shadowSlider' = StringOfTenths(shadow)
  /\ UNCHANGED << variant, apiKey, placementSelect, pageVars, alertOpen, camVars >>

\* ------------------------------------------------------- specifications
ProductChoices == {Null, "product.png"}
PhotoChoices == {Null, "scene1.jpg", "scene2.jpg"}

ImagePartA == [inlineData |-> [mimeType |-> "image/png", data |-> "imgA"]]
ImagePartB == [inlineData |-> [mimeType |-> "image/jpeg", data |-> "imgB"]]
TextPart == [text |-> "Here you go."]

\* What the service may answer in Spec.
Responses ==
  { [text |-> ""],
    [candidates |-> <<>>],
    [candidates |-> << [content |-> [parts |-> <<TextPart>>]] >>,
     text |-> "I cannot edit this image."],
    [candidates |-> << [content |-> [parts |-> <<ImagePartA>>]] >>, text |-> ""],
    [candidates |-> << [content |-> [parts |-> <<TextPart, ImagePartB, ImagePartA>>]] >>,
     text |-> "Here you go."] }

Next ==
  \/ DismissAlert
  \/ \E f \in ProductChoices : ProductChange(f)
  \/ \E f \in PhotoChoices : PhotoChange(f)
  \/ GenerateClick(MaxRequests, MaxInFlight)
  \/ \E i \in 1..MaxInFlight, ok \in BOOLEAN : ProductReadSettles(i, ok)
  \/ \E i \in 1..MaxInFlight, ok \in BOOLEAN : PhotoReadSettles(i, ok)
  \/ \E i \in 1..MaxInFlight, response \in Responses : ResponseArrives(i, response)
  \/ \E i \in 1..MaxInFlight : ResponseFails(i)
  \/ \E k \in 1..HistoryCapacity : SelectHistory(k)
  \/ \E k \in 1..PlaceholderCount : SelectVariant(k)
  \/ \E target \in CameraTargets : TakePhotoClick(target, MaxCameraOpens)
  \/ \E granted \in BOOLEAN : GetUserMediaSettles(granted)
  \/ CameraCaptureClick
  \/ CameraConfirmClick
  \/ \E hasBlob \in BOOLEAN : ToBlobCallback(hasBlob)
  \/ CameraCancelClick

Spec == Init /\ [][Next]_vars


\* The page without its camera: what the camera does to the pipeline is a
\* 'change' event on one of the two inputs, which PhotoChange and
\* ProductChange are.
NextPipeline ==
  \/ DismissAlert
  \/ \E f \in ProductChoices : ProductChange(f)
  \/ \E f \in PhotoChoices : PhotoChange(f)
  \/ GenerateClick(MaxRequests, MaxInFlight)
  \/ \E i \in 1..MaxInFlight, ok \in BOOLEAN : ProductReadSettles(i, ok)
  \/ \E i \in 1..MaxInFlight, ok \in BOOLEAN : PhotoReadSettles(i, ok)
  \/ \E i \in 1..MaxInFlight, response \in Responses : ResponseArrives(i, response)
  \/ \E i \in 1..MaxInFlight : ResponseFails(i)
  \/ \E k \in 1..HistoryCapacity : SelectHistory(k)
  \/ \E k \in 1..PlaceholderCount : SelectVariant(k)

SpecPipeline == Init /\ [][NextPipeline]_vars

\* The pipeline under the scheduling the browser gives it: a settled promise
\* gets its continuation run, every file read and service call settles one
\* way or the other, and the user dismisses an open alert.
Fairness ==
  /\ WF_vars(DismissAlert)
  /\ \A i \in 1..MaxInFlight :
       /\ WF_vars(\E ok \in BOOLEAN : ProductReadSettles(i, ok))
       /\ WF_vars(\E ok \in BOOLEAN : PhotoReadSettles(i, ok))
       /\ WF_vars(ResponseFails(i)
                  \/ \E response \in Responses : ResponseArrives(i, response))

SpecLive == Init /\ [][NextPipeline]_vars /\ Fairness

\* The generate handler called as the generate intent, whatever the state of
\* the button (a 'click' event dispatched on it, or a test calling it).
GenerateIntent == GenerateHandler(MaxRequests, MaxInFlight)

NextIntent ==
  \/ DismissAlert
  \/ \E f \in ProductChoices : ProductChange(f)
  \/ \E f \in PhotoChoices : PhotoChange(f)
  \/ GenerateIntent
  \/ \E i \in 1..MaxInFlight, ok \in BOOLEAN : ProductReadSettles(i, ok)
  \/ \E i \in 1..MaxInFlight, ok \in BOOLEAN : PhotoReadSettles(i, ok)
  \/ \E i \in 1..MaxInFlight, response \in Responses : ResponseArrives(i, response)
  \/ \E i \in 1..MaxInFlight : ResponseFails(i)

SpecIntent == Init /\ [][NextIntent]_vars

\* A long session with one product and one scene: the n-th result recorded
\* carries an image of its own, so that results can be told apart.
FreshImageResponse(n) ==
  [ candidates |-> << [content |-> [parts |->
       << [inlineData |-> [mimeType |-> "image/png", data |-> ToString(n)]],
          ImagePartA >>]] >>,
    text |-> "" ]

NextHistory ==
  \/ DismissAlert
  \/ ProductChange("product.png")
  \/ PhotoChange("scene1.jpg")
  \/ GenerateClick(MaxHistoryRequests, MaxHistoryInFlight)
  \/ \E i \in 1..MaxInFlight, ok \in BOOLEAN : ProductReadSettles(i, ok)
  \/ \E i \in 1..MaxInFlight, ok \in BOOLEAN : PhotoReadSettles(i, ok)
  \/ \E i \in 1..MaxInFlight : ResponseArrives(i, FreshImageResponse(Len(recorded) + 1))
  \/ \E i \in 1..MaxInFlight : ResponseArrives(i, [text |-> "Sorry."])
  \/ \E i \in 1..MaxInFlight : ResponseFails(i)
  \/ \E k \in 1..HistoryCapacity : SelectHistory(k)
  \/ \E k \in 1..PlaceholderCount : SelectVariant(k)

SpecHistory == Init /\ [][NextHistory]_vars

\* The camera alone, with several take-photo clicks: the two take-photo
\* buttons stay clickable while getUserMedia is pending (the modal opens
\* only when it resolves, part_000:114-116).
NextCamera ==
  \/ DismissAlert
  \/ \E target \in CameraTargets : TakePhotoClick(target, MaxCameraSessions)
  \/ \E granted \in BOOLEAN : GetUserMediaSettles(granted)
  \/ CameraCaptureClick
  \/ CameraConfirmClick
  \/ \E hasBlob \in BOOLEAN : ToBlobCallback(hasBlob)
  \/ CameraCancelClick

SpecCamera == Init /\ [][NextCamera]_vars

\* The form and its controls with one product and one scene: the prompt is
\* built from the controls as they are when the second file read is over.
ScaleChoices == {15, 40, 100}
ShadowTenths == {3, 6, 10}
ShadowPercents == {30, 60}
PlacementChoices == {"center", "left"}
Presets == { <<40, 6>>, <<15, 3>> }

NextPrompt ==
  \/ DismissAlert
  \/ ProductChange("product.png")
  \/ PhotoChange("scene1.jpg")
  \/ \E n \in ScaleChoices : ScaleInput(n)
  \/ \E t \in (IF variant = "composite" THEN ShadowTenths ELSE ShadowPercents) :
       ShadowInput(t)
  \/ \E p \in PlacementChoices : PlacementChange(p)
  \/ \E preset \in Presets : ApplyPreset(preset[1], preset[2])
  \/ GenerateClick(MaxPromptRequests, MaxPromptRequests)
  \/ \E i \in 1..MaxInFlight, ok \in BOOLEAN : ProductReadSettles(i, ok)
  \/ \E i \in 1..MaxInFlight, ok \in BOOLEAN : PhotoReadSettles(i, ok)
  \/ \E i \in 1..MaxInFlight : ResponseFails(i)

SpecPrompt == Init /\ [][NextPrompt]_vars

\* The extractor alone: one request waits for its response (the state after
\* both files were chosen, the click and the two file reads), and the
\* service answers with any response of up to MaxParts content parts.
ExtractParts == { ImagePartA, ImagePartB, TextPart }

SeqsUpTo(S, n) == UNION { [1..k -> S] : k \in 0..n }

ExtractResponses ==
  { [candidates |-> << [content |-> [parts |-> parts]] >>, text |-> ""] :
      parts \in SeqsUpTo(ExtractParts, MaxParts) }
  \cup
  { [text |-> ""],
    [text |-> "Blocked."],
    [candidates |-> <<>>, text |-> ""],
    [candidates |-> << [finishReason |-> "SAFETY"] >>, text |-> "Blocked."],
    [candidates |-> << [content |-> [role |-> "model"]] >>, text |-> ""],
    [candidates |-> << [content |-> [parts |-> <<TextPart>>]],
                       [content |-> [parts |-> <<ImagePartA>>]] >>,
     text |-> "Here you go."] }

InitExtract ==
  /\ variant \in Variants
  /\ apiKey = TRUE
  /\ productFiles = "product.png"
  /\ photoFiles = "scene1.jpg"
  /\ scaleSlider = "40"
  /\ shadowSlider = InitialShadow(variant)
  /\ placementSelect = InitialPlacement(variant)
  /\ generateDisabled = TRUE
  /\ buttonText = "Generating..."
  /\ spinnerDisplay = "block"
  /\ outputContainerDisplay = IF HasHistory(variant) THEN "block" ELSE "none"
  /\ comparisonLoading = HasHistory(variant)
  /\ variantsContainer = IF HasHistory(variant) THEN Placeholders ELSE <<>>
  /\ beforeImage = <<>>
  /\ afterImage = <<>>
  /\ outputGrid = <<>>
  /\ originalPhotoSrc =
       IF HasHistory(variant) THEN ReadAsDataURL("scene1.jpg") ELSE <<>>
  /\ currentGeneratedSources = <<>>
  /\ history = <<>>
  /\ alertOpen = NoAlert
  /\ reqs = << [ pc          |-> "awaitResponse",
                 productFile |-> "product.png",
                 photoFile   |-> "scene1.jpg",
                 productPart |-> FileToGenerativePart(variant, "product.png"),
                 photoPart   |-> FileToGenerativePart(variant, "scene1.jpg"),
                 sent        |-> GenerateContentRequest(
                                   FileToGenerativePart(variant, "product.png"),
                                   FileToGenerativePart(variant, "scene1.jpg"),
                                   BuildPrompt(variant, InitialPlacement(variant),
                                     "40", InitialShadow(variant))),
                 calls       |-> 1,
                 before      |-> << <<>>, <<>>, <<>> >> ] >>
  /\ accepted = 1
  /\ networkCalls = 1
  /\ recorded = <<>>
  /\ activeCameraTarget = Null
  /\ stream = 0
  /\ liveStreams = {}
  /\ cameraModalDisplay = "none"
  /\ cameraConfirmDisabled = FALSE
  /\ cameraConfirmText = "Use Photo"
  /\ pendingOpens = 0
  /\ pendingBlobs = <<>>
  /\ cameraOpens = 0

NextExtract ==
  \/ \E response \in ExtractResponses : ResponseArrives(1, response)
  \/ DismissAlert

SpecExtract == InitExtract /\ [][NextExtract]_vars

\* ------------------------------------------------------------------ claims

\* C1: at most one generation request is outstanding at any time, for every
\* interleaving of generate clicks, file-change events and camera confirms.
\* The code breaks it: a 'change' event during a request runs
\* checkFormValidity, which enables the button again.
C1_AtMostOneOutstanding == Len(reqs) <= 1

\* C2: the history never holds more than 5 entries and is the newest-first
\* list of the 5 results recorded last; once 6 results were recorded the
\* first of them is gone and the other 5 stand in reverse order of recording.
C2_HistoryBoundedNewestFirst ==
  /\ Len(history) <= 5
  /\ Len(history) = (IF Len(recorded) < 5 THEN Len(recorded) ELSE 5)
  /\ \A k \in 1..Len(history) : history[k] = recorded[Len(recorded) - k + 1]
  /\ Len(recorded) >= 6 => \A k \in 1..Len(history) : history[k] # recorded[1]
  /\ Len(recorded) = 6 =>
       history = << recorded[6], recorded[5], recorded[4], recorded[3], recorded[2] >>

\* Six results were recorded one after the other.
C2_Witness == Len(recorded) = 6 /\ Len(history) = 5

\* The content parts of the first candidate as the claims read them off a
\* response, and how many of them carry inline image data.
PartsOfFirstCandidate(response) ==
  IF "candidates" \in DOMAIN response /\ response.candidates # <<>>
     /\ "content" \in DOMAIN response.candidates[1]
     /\ "parts" \in DOMAIN response.candidates[1].content
    THEN response.candidates[1].content.parts
    ELSE <<>>

InlineImageCount(response) ==
  Cardinality({ j \in DOMAIN PartsOfFirstCandidate(response) :
                  "inlineData" \in DOMAIN PartsOfFirstCandidate(response)[j] })

\* C3: a result is recorded in history only when the response held at least
\* one inline-image part: the step that handles a response without one
\* leaves history as it is, and every entry of history has variants.
C3_RecordedOnlyWithImage ==
  [][ /\ \A k \in 1..Len(history') : Len(history'[k].variants) > 0
      /\ \A i \in 1..MaxInFlight : \A response \in Responses :
           (Len(reqs') < Len(reqs) /\ ResponseArrives(i, response))
             => /\ InlineImageCount(response) = 0
                     => (history' = history /\ recorded' = recorded)
                /\ history' # history
                     => (/\ InlineImageCount(response) > 0
                         /\ Len(history'[1].variants) = InlineImageCount(response)) ]_vars

\* A response without image arrived after a result had been recorded.
C3_Witness ==
  /\ Len(history) = 1
  /\ Len(alertOpen) = 2
  /\ alertOpen[1] = "Could not generate an image. Model response: "

\* C4: a generate intent issued while the product image is absent, the
\* scene image is absent or no API credential is configured is rejected
\* before dispatch: the step raises the MissingInput alert, starts no
\* request, calls the service zero times and leaves the loading state off;
\* and no request is ever accepted with one of the three missing.
C4_MissingInputRejected ==
  [][ /\ (GenerateIntent /\ (productFiles = Null \/ photoFiles = Null \/ ~apiKey))
           => /\ alertOpen' = MissingInputMessage(variant)
              /\ reqs' = reqs
              /\ accepted' = accepted
              /\ networkCalls' = networkCalls
              /\ generateDisabled' = generateDisabled
              /\ buttonText' = buttonText
              /\ spinnerDisplay' = spinnerDisplay
              /\ comparisonLoading' = comparisonLoading
      /\ (accepted' # accepted \/ Len(reqs') > Len(reqs))
           => (productFiles # Null /\ photoFiles # Null /\ apiKey)
      /\ (~apiKey) => networkCalls' = 0 ]_vars

\* The intent was issued with the product chosen, the credential set and the
\* scene image absent, and was rejected.
C4_Witness ==
  /\ alertOpen = MissingInputMessage(variant)
  /\ productFiles # Null
  /\ photoFiles = Null
  /\ apiKey
  /\ networkCalls = 0
  /\ buttonText # "Generating..."

\* The request removed from reqs by this step, if it ended with an alert.
EndsFailed(i) ==
  /\ i \in 1..Len(reqs)
  /\ reqs' = RemoveAt(reqs, i)
  /\ alertOpen = NoAlert
  /\ alertOpen' # NoAlert

\* C5: when a generate request ends as MissingInput, ServiceFailure or
\* NoImageReturned, the history, the original image (originalPhotoSrc) and
\* the variant sources last shown (currentGeneratedSources) are what they
\* were before that request.  The code breaks it: originalPhotoSrc is
\* assigned before the service is called (part_000:274), and a second
\* request may record a result while the first is in flight.
C5_FailedRequestKeepsState ==
  [][ \A i \in 1..MaxInFlight :
        EndsFailed(i) =>
          << history', originalPhotoSrc', currentGeneratedSources' >> = reqs[i].before ]_vars

\* C6: the generate trigger is disabled for the whole duration of a request
\* and the cleanup block enables it again whatever the outcome.  The code
\* breaks it: a 'change' event during a request enables the button.
C6_DisabledWhileRequestRuns == Len(reqs) > 0 => generateDisabled

Last(s) == s[Len(s)]

\* C7: recording a result and then selecting history index 0 displays the
\* result recorded last, unchanged: its original image and its variants in
\* their order, the first of them in the main image.
C7_RecordThenSelectRoundTrip ==
  [][ SelectHistory(1) =>
        /\ recorded # <<>>
        /\ beforeImage' = Last(recorded).original
        /\ currentGeneratedSources' = Last(recorded).variants
        /\ variantsContainer' = Last(recorded).variants
        /\ afterImage' = Last(recorded).variants[1] ]_vars

\* One result is recorded, a later request put the placeholders up, and the
\* click on history item 0 brought the recorded result back.
C7_Witness ==
  /\ Len(recorded) = 1
  /\ comparisonLoading
  /\ Len(reqs) = 1
  /\ beforeImage = recorded[1].original
  /\ currentGeneratedSources = recorded[1].variants
  /\ variantsContainer = recorded[1].variants
  /\ Len(recorded[1].variants) = 2

\* The index of the k-th content part that carries inline image data.
KthImageIndex(parts, k) ==
  CHOOSE j \in DOMAIN parts :
    /\ "inlineData" \in DOMAIN parts[j]
    /\ Cardinality({ m \in 1..j : "inlineData" \in DOMAIN parts[m] }) = k

\* The image sources on display: the variants of the result shown, or the
\* images of the output grid in the overlay variant.
DisplayedSources ==
  IF HasHistory(variant) THEN currentGeneratedSources ELSE outputGrid

\* C8: for a response whose first candidate carries K inline-image parts
\* among any number of text parts, the extractor yields exactly K image
\* sources, the k-th being data:<mimeType>;base64,<data> of the k-th image
\* part, when K > 0 (whatever K is), and the NoImageReturned case when K = 0.
C8_ExtractorYieldsKInOrder ==
  [][ \A response \in ExtractResponses :
        ResponseArrives(1, response) =>
          LET parts == PartsOfFirstCandidate(response)
              K == InlineImageCount(response)
          IN  IF K > 0
                THEN /\ Len(DisplayedSources') = K
                     /\ \A k \in 1..K :
                          LET part == parts[KthImageIndex(parts, k)]
                          IN  DisplayedSources'[k] =
                                << "data:", part.inlineData.mimeType, ";base64", ",",
                                   part.inlineData.data >>
                     /\ alertOpen' = NoAlert
                ELSE /\ DisplayedSources' = DisplayedSources
                     /\ history' = history
                     /\ Len(alertOpen') = 2
                     /\ alertOpen'[1] = "Could not generate an image. Model response: " ]_vars

\* Four image sources extracted from a response with four image parts, in
\* the order B, A, B, A.
C8_Witness ==
  /\ reqs = <<>>
  /\ Len(DisplayedSources) = 4
  /\ DisplayedSources[1][5] = "imgB"
  /\ DisplayedSources[2][5] = "imgA"
  /\ DisplayedSources[3][5] = "imgB"
  /\ DisplayedSources[4][5] = "imgA"

\* C9: every dispatched request carries exactly three content parts in this
\* order: the product image, the scene image, the text prompt; and asks for
\* the IMAGE and TEXT response modalities; in all three variants.
C9_RequestHasThreeOrderedParts ==
  \A i \in 1..Len(reqs) :
    reqs[i].pc = "awaitResponse" =>
      LET sent == reqs[i].sent
          parts == sent.contents.parts
      IN  /\ Len(parts) = 3
          /\ "inlineData" \in DOMAIN parts[1]
          /\ parts[1].inlineData.mimeType = FileType(reqs[i].productFile)
          /\ parts[1].inlineData.data = <<FileBase64(reqs[i].productFile)>>
          /\ "inlineData" \in DOMAIN parts[2]
          /\ parts[2].inlineData.mimeType = FileType(reqs[i].photoFile)
          /\ parts[2].inlineData.data = <<FileBase64(reqs[i].photoFile)>>
          /\ DOMAIN parts[3] = {"text"}
          /\ parts[3].text =
               BuildPrompt(variant, placementSelect, scaleSlider, shadowSlider)
          /\ sent.config.responseModalities = <<"IMAGE", "TEXT">>

\* Two requests were dispatched and wait for their responses.
C9_Witness ==
  /\ Len(reqs) = 2
  /\ reqs[1].pc = "awaitResponse"
  /\ reqs[2].pc = "awaitResponse"
  /\ reqs[1].photoFile # reqs[2].photoFile

\* C10: each accepted generate intent results in at most one call of the
\* generation service: a rejected call is not retried, it ends the request
\* and is reported with the generic failure message.
C10_SingleCallNoRetry ==
  [][ /\ networkCalls' <= accepted'
      /\ \A i \in 1..Len(reqs') : reqs'[i].calls <= 1
      /\ \A i \in 1..MaxInFlight :
           ResponseFails(i) =>
             /\ networkCalls' = networkCalls
             /\ reqs' = RemoveAt(reqs, i)
             /\ alertOpen' = ServiceFailureMessage(variant) ]_vars

\* The one request accepted was dispatched once, the call failed and the
\* generic failure is on display.
C10_Witness ==
  /\ accepted = 1
  /\ networkCalls = 1
  /\ reqs = <<>>
  /\ alertOpen = ServiceFailureMessage(variant)


\* The free text of a response, as the claims read it: none when the field
\* is missing or empty.
FreeText(response) ==
  IF "text" \in DOMAIN response THEN response.text ELSE ""

\* C11: when a response holds no image part, the alert shown carries the
\* free text of the response if it has one and the fixed fallback string
\* "No text response." otherwise, and is never the generic ServiceFailure
\* message.
C11_NoImageCarriesExplanation ==
  [][ \A i \in 1..MaxInFlight : \A response \in Responses :
        (Len(reqs') < Len(reqs) /\ InlineImageCount(response) = 0
           /\ ResponseArrives(i, response))
          => /\ Len(alertOpen') = 2
             /\ alertOpen'[1] = "Could not generate an image. Model response: "
             /\ FreeText(response) # "" => alertOpen'[2] = FreeText(response)
             /\ FreeText(response) = "" => alertOpen'[2] = "No text response."
             /\ alertOpen' # ServiceFailureMessage(variant) ]_vars

\* A response without image and with an explanation was surfaced.
C11_Witness ==
  alertOpen = << "Could not generate an image. Model response: ",
                 "I cannot edit this image." >>

\* C12: selecting a history entry, selecting a variant and a failed request
\* leave the history as it is; the history changes only when a result is
\* recorded, and then every stored entry keeps its original and variants
\* and moves one place back, the oldest of 5 being evicted.
C12_EntriesNeverUpdated ==
  [][ /\ (\E k \in 1..HistoryCapacity : SelectHistory(k)) => history' = history
      /\ (\E k \in 1..PlaceholderCount : SelectVariant(k)) => history' = history
      /\ (alertOpen = NoAlert /\ alertOpen' # NoAlert) => history' = history
      /\ history' # history =>
           /\ Len(recorded') = Len(recorded) + 1
           /\ Len(history') =
                (IF Len(history) < 5 THEN Len(history) + 1 ELSE 5)
           /\ history'[1] = Last(recorded')
           /\ \A k \in 2..Len(history') : history'[k] = history[k-1] ]_vars

\* The oldest of five entries was selected, a variant of it chosen, and a
\* request failed, with the history still full.
C12_Witness ==
  /\ Len(history) = 5
  /\ Len(recorded) >= 5
  /\ beforeImage = history[5].original
  /\ afterImage = history[5].variants[2]
  /\ alertOpen # NoAlert

\* The step in which request i calls the service, and the prompt it sent.
DispatchStep(i) ==
  /\ i \in 1..Len(reqs)
  /\ reqs[i].pc = "readPhoto"
  /\ Len(reqs') = Len(reqs)
  /\ reqs'[i].pc = "awaitResponse"

SentPrompt(r) == r.sent.contents.parts[3].text

\* Placeholders as the templates write them.
UnresolvedPlaceholders ==
  { "${scaleSlider.value}", "${shadowSlider.value}", "${placementSelect.value}",
    "${scale}", "${shadow}", "${placement}" }

\* The decimal strings of the parameter values the controls can take.
ScaleStrings == {"15", "40", "100"}
ShadowStrings == {"0.3", "0.6", "1", "30", "60"}

\* C13: in each of the three variants the prompt sent holds the string of
\* every parameter of the variant at its placeholder position (try-on: the
\* scale; composite and overlay: placement, scale, shadow), the strings
\* being the decimal strings of the values, and no token of the prompt is
\* an unresolved placeholder or a missing value.
C13_PromptHoldsParameters ==
  [][ \A i \in 1..MaxInFlight :
        DispatchStep(i) =>
          LET prompt == SentPrompt(reqs'[i])
          IN  /\ \A k \in 1..Len(prompt) :
                   prompt[k] \notin UnresolvedPlaceholders \cup {Null, ""}
              /\ variant = "tryon" =>
                   /\ Len(prompt) = 4
                   /\ prompt[2] = scaleSlider /\ prompt[2] \in ScaleStrings
              /\ variant # "tryon" =>
                   /\ prompt[2] = placementSelect
                   /\ prompt[2] \in PlacementChoices
                   /\ prompt[4] = scaleSlider /\ prompt[4] \in ScaleStrings
                   /\ prompt[5] = "%"
                   /\ prompt[7] = shadowSlider /\ prompt[7] \in ShadowStrings
              /\ variant = "composite" => Len(prompt) = 8
              /\ variant = "overlay" => Len(prompt) = 9 /\ prompt[8] = "%" ]_vars

\* A composite request was sent after the controls were moved to placement
\* "left", scale 15 and shadow 1.0.
C13_Witness ==
  /\ variant = "composite"
  /\ Len(reqs) = 1
  /\ reqs[1].pc = "awaitResponse"
  /\ SentPrompt(reqs[1])[2] = "left"
  /\ SentPrompt(reqs[1])[4] = "15"
  /\ SentPrompt(reqs[1])[7] = "1"

\* Token `value` stands in the prompt right before a "%".
FollowedByPercent(prompt, value) ==
  \E k \in 1..(Len(prompt) - 1) : prompt[k] = value /\ prompt[k+1] = "%"

C15_StreamsReleasedWhenClosed ==
  (cameraModalDisplay = "none" /\ pendingOpens = 0 /\ pendingBlobs = <<>>)
    => liveStreams = {}

\* C18: whenever the toBlob callback of a confirm runs with a blob,
\* activeCameraTarget is still the input the confirm click was made for,
\* and the capture lands in that input.  The code breaks it: the cancel
\* button stays enabled while the blob is made (part_000:104-109 disables
\* the confirm button only), closeCamera sets activeCameraTarget to null
\* (part_000:129) and `activeCameraTarget!.files = ...` (part_000:156)
\* throws.
C18_CaptureDeliveredToTarget ==
  [][ ToBlobCallback(TRUE) =>
        /\ activeCameraTarget # Null
        /\ activeCameraTarget = Head(pendingBlobs)
        /\ Head(pendingBlobs) = "product-upload" => productFiles' = CaptureFile
        /\ Head(pendingBlobs) = "photo-upload" => photoFiles' = CaptureFile ]_vars

\* The loading state is off: no 'Generating...' text, no spinner, no
\* loading class on the comparison container.
LoadingOff ==
  /\ buttonText # "Generating..."
  /\ spinnerDisplay = "none"
  /\ ~comparisonLoading

\* Every accepted request runs its cleanup block, and the cleanup block
\* leaves the loading state off.
C16_EveryRequestCleansUp ==
  /\ (Len(reqs) > 0) ~> (reqs = <<>> /\ LoadingOff)
  /\ [][ Len(reqs') < Len(reqs) => LoadingOff' ]_vars

\* A request whose service call has not settled leaves the trigger
\* disabled: no step that leaves the request waiting enables it.
C16_UnsettledKeepsDisabled ==
  [][ \A i \in 1..MaxInFlight :
        ( /\ i \in 1..Len(reqs) /\ reqs[i].pc = "awaitResponse"
          /\ i \in 1..Len(reqs') /\ reqs'[i] = reqs[i]
          /\ generateDisabled )
          => generateDisabled' ]_vars

\* C16: if every file read and service call settles, every accepted request
\* runs its cleanup block, after which the loading state is off; and as
\* long as the service call of a request has not settled the trigger stays
\* disabled.  The code breaks the second half: a 'change' event enables the
\* trigger while the call is pending (see C1).
C16_CleanupOrDisabledForever ==
  C16_EveryRequestCleansUp /\ C16_UnsettledKeepsDisabled

\* C17: the original of every result recorded and displayed is the scene
\* image that was sent in the request whose response produced the
\* variants.  The code breaks it: the original is read from the shared
\* originalPhotoSrc when the response arrives (part_000:303), and a second
\* request (see C1) may have assigned it in between (part_000:274).
C17_OriginalIsSceneOfSameRequest ==
  [][ \A i \in 1..MaxInFlight : \A response \in Responses :
        (ResponseArrives(i, response) /\ recorded' # recorded)
          => /\ Last(recorded').original = reqs[i].photoPart.url
             /\ history'[1].original = reqs[i].photoPart.url
             /\ beforeImage' = reqs[i].photoPart.url ]_vars

\* C19: the two images a request reads and sends are the ones that were
\* selected when its click passed the input check, whatever 'change' events
\* occur while it awaits a file read, and no such event makes the request
\* fail for want of an image.  The code breaks it for the scene image:
\* photoUpload.files[0] is evaluated after the first await (part_000:273).
C19_SendsFilesSelectedAtClick ==
  [][ \A i \in 1..MaxInFlight :
        (i \in 1..Len(reqs) /\ reqs[i].pc = "readProduct" /\ ProductReadSettles(i, TRUE))
          => /\ Len(reqs') = Len(reqs)
             /\ reqs'[i].pc = "readPhoto"
             /\ reqs'[i].productFile = reqs[i].productFile
             /\ reqs'[i].photoFile = reqs[i].photoFile ]_vars

======================================================================
